---- MODULE Spec2Model ----
(***************************************************************************)
(* A model of igdb_to_supabase.py: the SQLite staging store (init_sqlite,  *)
(* get_state, set_state, save_to_sqlite) and the IGDB fetchers (igdb_post, *)
(* fetch_games, fetch_lookup).                                             *)
(*                                                                         *)
(* JSON / Python values are tagged records, so that a missing field, a     *)
(* null, an empty list and a value of the wrong type stay distinct.  A     *)
(* dictionary is a function from field names to such values.               *)
(***************************************************************************)
EXTENDS Integers, Sequences, FiniteSets, TLC

VARIABLES
    db,         \* the connection's view of the tables (pending writes included)
    committed,  \* the durable contents of the database file
    pre,        \* history: db before the last store operation
    last,       \* history: the last store operation, its arguments and outcome
    written,    \* history: per key, the values passed to set_state, oldest first
    failedBase, \* history: <<committed>> from the save_to_sqlite that raised, else <<>>
    nOps,       \* number of store operations so far
    remote,     \* the catalog as it stands during the call: its games, its lookup records
    frame,      \* the running or finished fetch_games / fetch_lookup call and its locals
    resp,       \* the HTTP response to the last request, <<>> before the first
    log,        \* the requests and sleeps so far, in order
    run         \* the sync run: its stage, checkpoint read, fetched lists

storeVars == <<db, committed, pre, last, written, failedBase, nOps>>
fetchVars == <<remote, frame, resp, log>>
vars == <<db, committed, pre, last, written, failedBase, nOps, remote, frame, resp, log, run>>

----------------------------------------------------------------------------
(* Bounds of the model *)

MaxOps == 3
MaxPages == 2
MaxChunks == 2
MaxRuns == 2

(* Constants of the program *)

FETCH_LIMIT == 500
CHUNK == 500
RATE_SLEEP_MS == 250

----------------------------------------------------------------------------
(* Python / JSON values *)

JNull == [t |-> "null"]
JStr(s) == [t |-> "str", s |-> s]
JInt(i) == [t |-> "int", i |-> i]
JReal(r) == [t |-> "real", r |-> r]
JList(l) == [t |-> "list", l |-> l]
JDict(d) == [t |-> "dict", d |-> d]

\* dict.get(f): the value, or None when the field is missing
Get(d, f) == IF f \in DOMAIN d THEN d[f] ELSE JNull

\* dict.get(f, default)
GetD(d, f, default) == IF f \in DOMAIN d THEN d[f] ELSE default

\* Python truthiness of a value
Truthy(v) ==
    CASE v.t = "null" -> FALSE
      [] v.t = "str"  -> v.s # ""
      [] v.t = "int"  -> v.i # 0
      [] v.t = "list" -> v.l # <<>>
      [] OTHER        -> TRUE

\* str(value)
PyStr(v) ==
    CASE v.t = "null" -> "None"
      [] v.t = "str"  -> v.s
      [] v.t = "int"  -> ToString(v.i)
      [] OTHER        -> "?"

\* the types sqlite3 binds as a statement parameter
Bindable(v) == v.t \in {"null", "str", "int", "real"}

----------------------------------------------------------------------------
(* The schema created by init_sqlite *)

EntityTables ==
    {"igdb_games", "igdb_genres", "igdb_platforms", "igdb_companies",
     "igdb_covers", "igdb_screenshots"}

AssocTables ==
    {"game_genres", "game_platforms", "game_companies", "game_screenshots"}

TableNames == {"sync_state"} \cup EntityTables \cup AssocTables

\* mutant: an association table is keyed by the game alone
PrimaryKeyGameOnly(t) ==
    CASE t = "sync_state"   -> {"key"}
      [] t \in AssocTables  -> {"game_id"}
      [] OTHER              -> {"id"}

\* the primary key of each table
PrimaryKey(t) ==
    CASE t = "sync_state"       -> {"key"}
      [] t = "game_genres"      -> {"game_id", "genre_id"}
      [] t = "game_platforms"   -> {"game_id", "platform_id"}
      [] t = "game_companies"   -> {"game_id", "company_id"}
      [] t = "game_screenshots" -> {"game_id", "screenshot_id"}
      [] OTHER                  -> {"id"}

SameKey(t, r, s) == \A c \in PrimaryKey(t) : r[c] = s[c]

\* mutant: drop table, create table
CreateTablesAnew(d) == [t \in TableNames |-> {}]

\* create table if not exists: an existing table keeps its rows
CreateTables(d) == [t \in TableNames |-> IF t \in DOMAIN d THEN d[t] ELSE {}]

NoTables == [t \in {} |-> {}]

----------------------------------------------------------------------------
(* SQL statements *)

RECURSIVE Concat(_)
Concat(ss) == IF ss = <<>> THEN <<>> ELSE Head(ss) \o Concat(Tail(ss))

\* mutant: the update of a conflicting insert has no "where": it rewrites every row
OnConflictUpdateAll(rows, t, row, set) ==
    IF \E r \in rows : SameKey(t, r, row)
    THEN {[c \in DOMAIN r |-> IF c \in set THEN row[c] ELSE r[c]] : r \in rows}
    ELSE rows \cup {row}

\* insert ... on conflict(<primary key>) do update set c = excluded.c, for c in set
OnConflictUpdate(rows, t, row, set) ==
    IF \E r \in rows : SameKey(t, r, row)
    THEN {IF SameKey(t, r, row)
          THEN [c \in DOMAIN r |-> IF c \in set THEN row[c] ELSE r[c]]
          ELSE r : r \in rows}
    ELSE rows \cup {row}

\* insert ... on conflict(<primary key>) do nothing
OnConflictNothing(rows, t, row) ==
    IF \E r \in rows : SameKey(t, r, row) THEN rows ELSE rows \cup {row}

UpsertStmt(t, row, set) == [op |-> "upsert", table |-> t, row |-> row, set |-> set]
InsertStmt(t, row) == [op |-> "insert", table |-> t, row |-> row, set |-> {}]

\* cur.execute raises when a parameter has a type sqlite3 cannot bind
StmtRaises(st) == \E c \in DOMAIN st.row : ~Bindable(st.row[c])

\* one cur.execute on the connection
Execute(d, st) ==
    [d EXCEPT ![st.table] =
        IF st.op = "upsert"
        THEN OnConflictUpdate(@, st.table, st.row, st.set)
        ELSE OnConflictNothing(@, st.table, st.row)]

\* the statements run in order until one raises; ok says whether all ran
RECURSIVE ExecuteAll(_, _, _)
ExecuteAll(d, stmts, i) ==
    IF i > Len(stmts) THEN [db |-> d, ok |-> TRUE]
    ELSE IF StmtRaises(stmts[i]) THEN [db |-> d, ok |-> FALSE]
    ELSE ExecuteAll(Execute(d, stmts[i]), stmts, i + 1)

----------------------------------------------------------------------------
(* save_to_sqlite: the statements of one pass, in the order the code runs them *)

\* mutant: the genres go to the platforms table
GenreStmtAsPlatform(g) ==
    UpsertStmt("igdb_platforms", [id |-> Get(g, "id"), name |-> Get(g, "name")], {"name"})

GenreStmt(g) ==
    UpsertStmt("igdb_genres", [id |-> Get(g, "id"), name |-> Get(g, "name")], {"name"})

PlatformStmt(p) ==
    UpsertStmt("igdb_platforms", [id |-> Get(p, "id"), name |-> Get(p, "name")], {"name"})

\* c.get("company", {}).get("name") if isinstance(c.get("company"), dict) else c.get("name")
CompanyName(c) ==
    IF Get(c, "company").t = "dict"
    THEN Get(GetD(c, "company", JDict([x \in {} |-> JNull])).d, "name")
    ELSE Get(c, "name")

CompanyStmt(c) ==
    UpsertStmt("igdb_companies", [id |-> Get(c, "id"), name |-> CompanyName(c)], {"name"})

CoverStmt(cov) ==
    UpsertStmt("igdb_covers",
               [id |-> Get(cov, "id"), url |-> Get(cov, "url"),
                width |-> Get(cov, "width"), height |-> Get(cov, "height")],
               {"url", "width", "height"})

ScreenshotStmt(s) ==
    UpsertStmt("igdb_screenshots",
               [id |-> Get(s, "id"), url |-> Get(s, "url"),
                width |-> Get(s, "width"), height |-> Get(s, "height")],
               {"url", "width", "height"})

\* mutant: the update clause leaves summary and rating out
GameStmtStale(g) ==
    UpsertStmt("igdb_games",
               [id |-> Get(g, "id"), name |-> Get(g, "name"),
                summary |-> Get(g, "summary"),
                first_release_date |-> Get(g, "first_release_date"),
                rating |-> Get(g, "rating"),
                total_rating_count |-> Get(g, "total_rating_count"),
                updated_at |-> Get(g, "updated_at")],
               {"name", "first_release_date", "total_rating_count", "updated_at"})

GameStmt(g) ==
    UpsertStmt("igdb_games",
               [id |-> Get(g, "id"), name |-> Get(g, "name"),
                summary |-> Get(g, "summary"),
                first_release_date |-> Get(g, "first_release_date"),
                rating |-> Get(g, "rating"),
                total_rating_count |-> Get(g, "total_rating_count"),
                updated_at |-> Get(g, "updated_at")],
               {"name", "summary", "first_release_date", "rating",
                "total_rating_count", "updated_at"})

\* g.get(f, []) or []
RefList(g, f) ==
    LET v == GetD(g, f, JList(<<>>)) IN IF Truthy(v) THEN v.l ELSE <<>>

GameGenreStmt(gid, x) == InsertStmt("game_genres", [game_id |-> gid, genre_id |-> x])
\* mutant: the game id is bound to both columns
GamePlatformStmtSelf(gid, x) == InsertStmt("game_platforms", [game_id |-> gid, platform_id |-> gid])

GamePlatformStmt(gid, x) == InsertStmt("game_platforms", [game_id |-> gid, platform_id |-> x])
GameCompanyStmt(gid, x) == InsertStmt("game_companies", [game_id |-> gid, company_id |-> x])
GameScreenshotStmt(gid, x) == InsertStmt("game_screenshots", [game_id |-> gid, screenshot_id |-> x])

\* the body of "for g in games"
GameStmts(g) ==
    LET gid == Get(g, "id")
        genres == RefList(g, "genres")
        platforms == RefList(g, "platforms")
        companies == RefList(g, "involved_companies")
        screenshots == RefList(g, "screenshots")
    IN  <<GameStmt(g)>>
        \o [i \in 1..Len(genres) |-> GameGenreStmt(gid, genres[i])]
        \o [i \in 1..Len(platforms) |-> GamePlatformStmt(gid, platforms[i])]
        \o [i \in 1..Len(companies) |-> GameCompanyStmt(gid, companies[i])]
        \o [i \in 1..Len(screenshots) |-> GameScreenshotStmt(gid, screenshots[i])]

\* mutant: the pass stamps the time of the sync with the games it writes
SaveStmtsStamped(b) ==
    Concat([i \in 1..Len(b.games) |-> GameStmts(b.games[i])])
    \o <<UpsertStmt("sync_state",
                    [key |-> JStr("last_sync_timestamp"), value |-> JStr("0")],
                    {"value"})>>

SaveStmts(b) ==
    [i \in 1..Len(b.genres) |-> GenreStmt(b.genres[i])]
    \o [i \in 1..Len(b.platforms) |-> PlatformStmt(b.platforms[i])]
    \o [i \in 1..Len(b.companies) |-> CompanyStmt(b.companies[i])]
    \o [i \in 1..Len(b.covers) |-> CoverStmt(b.covers[i])]
    \o [i \in 1..Len(b.screenshots) |-> ScreenshotStmt(b.screenshots[i])]
    \o Concat([i \in 1..Len(b.games) |-> GameStmts(b.games[i])])

\* the result of save_to_sqlite on the connection: every statement ran and the
\* pass was committed (ok), or a statement raised and the earlier ones are pending
SaveResult(d, b) == ExecuteAll(d, SaveStmts(b), 1)

----------------------------------------------------------------------------
(* get_state / set_state *)

\* select value from sync_state where key = ?; row[0] if row else default
GetStateValue(d, key, default) ==
    LET rows == {r \in d["sync_state"] : r.key = JStr(key)}
    IN  IF rows = {} THEN default ELSE (CHOOSE r \in rows : TRUE).value

\* mutant: insert or ignore, the first value of a key stays
SetStateStmtIgnore(key, value) ==
    InsertStmt("sync_state", [key |-> JStr(key), value |-> JStr(PyStr(value))])

SetStateStmt(key, value) ==
    UpsertStmt("sync_state", [key |-> JStr(key), value |-> JStr(PyStr(value))], {"value"})


----------------------------------------------------------------------------
(* The records the operations are called with.  A record carries the       *)
(* catalog's integer id; any other field, and any reference list, may be   *)
(* missing or null.  A field holding a JSON array where a scalar is bound  *)
(* makes its statement raise.                                              *)

Refs(ids) == JList([i \in 1..Len(ids) |-> JInt(ids[i])])

GenreSamples ==
    [a   |-> [id |-> JInt(1), name |-> JStr("Action")],
     b   |-> [id |-> JInt(1), name |-> JStr("RPG")],
     n   |-> [id |-> JInt(1)],
     c   |-> [id |-> JInt(2), name |-> JStr("Puzzle")],
     bad |-> [id |-> JInt(2), name |-> JList(<<>>)]]

PlatformSamples ==
    [a |-> [id |-> JInt(1), name |-> JStr("PC")],
     b |-> [id |-> JInt(1), name |-> JNull],
     c |-> [id |-> JInt(2), name |-> JStr("Switch")]]

CompanySamples ==
    [a |-> [id |-> JInt(1), company |-> JDict([id |-> JInt(70), name |-> JStr("Nintendo")])],
     b |-> [id |-> JInt(1), company |-> JInt(70), name |-> JStr("Sega")],
     n |-> [id |-> JInt(1), company |-> JDict([id |-> JInt(70)]), name |-> JStr("Sega")]]

CoverSamples ==
    [a |-> [id |-> JInt(1), url |-> JStr("//c/1.jpg"), width |-> JInt(600), height |-> JInt(800)],
     b |-> [id |-> JInt(1), url |-> JStr("//c/1b.jpg"), height |-> JInt(900)]]

ScreenshotSamples ==
    [a |-> [id |-> JInt(1), url |-> JStr("//s/1.jpg"), width |-> JInt(1280), height |-> JInt(720)],
     b |-> [id |-> JInt(1), width |-> JInt(1920)],
     c |-> [id |-> JInt(2), url |-> JStr("//s/2.jpg"), width |-> JInt(1280), height |-> JInt(720)]]

GameSamples ==
    [a   |-> [id |-> JInt(1), name |-> JStr("Zelda"), summary |-> JStr("An adventure"),
              first_release_date |-> JInt(500), rating |-> JReal("87.5"),
              total_rating_count |-> JInt(12), updated_at |-> JInt(100),
              genres |-> Refs(<<1, 2>>), platforms |-> Refs(<<1>>),
              involved_companies |-> Refs(<<1>>), cover |-> JInt(1),
              screenshots |-> Refs(<<1, 2>>)],
     b   |-> [id |-> JInt(1), name |-> JStr("Zelda DX"), updated_at |-> JInt(200),
              genres |-> Refs(<<2>>), platforms |-> JNull, screenshots |-> Refs(<<>>)],
     c   |-> [id |-> JInt(2), name |-> JStr("Tetris"), rating |-> JNull,
              updated_at |-> JInt(150), genres |-> Refs(<<1>>),
              platforms |-> Refs(<<1, 2>>)],
     bad |-> [id |-> JInt(2), name |-> JStr("Tetris"), summary |-> JList(<<>>),
              genres |-> Refs(<<2>>)]]

Batch(games, genres, platforms, companies, covers, screenshots) ==
    [games |-> games, genres |-> genres, platforms |-> platforms,
     companies |-> companies, covers |-> covers, screenshots |-> screenshots]

GameLists ==
    {<<>>,
     <<GameSamples.a, GameSamples.c>>,
     <<GameSamples.a, GameSamples.b>>,
     <<GameSamples.b>>,
     <<GameSamples.a, GameSamples.bad>>}

\* the five lookup lists of a batch
LookupLists ==
    {<< <<>>, <<>>, <<>>, <<>>, <<>> >>,
     << <<GenreSamples.a, GenreSamples.c>>, <<PlatformSamples.a, PlatformSamples.c>>,
        <<CompanySamples.b>>, <<CoverSamples.a>>,
        <<ScreenshotSamples.a, ScreenshotSamples.c>> >>,
     << <<GenreSamples.b, GenreSamples.n>>, <<PlatformSamples.b>>,
        <<CompanySamples.a, CompanySamples.n>>, <<CoverSamples.a, CoverSamples.b>>,
        <<ScreenshotSamples.b>> >>,
     << <<GenreSamples.a, GenreSamples.bad>>, <<PlatformSamples.a>>,
        <<>>, <<>>, <<>> >>}

Batches ==
    {Batch(gs, l[1], l[2], l[3], l[4], l[5]) : gs \in GameLists, l \in LookupLists}

StateKeys == {"last_sync_timestamp", "cursor"}

\* values passed to set_state: an int, a str, None
StateValues == {JInt(100), JStr("200"), JNull}

StateDefaults == {JNull, JStr("0")}

----------------------------------------------------------------------------
(* The remote catalog and igdb_post *)

\* the games endpoint: the games matching the filter, in source order, cut to
\* the page asked for
Matching(games, where) ==
    IF where = <<>> THEN games
    ELSE LET Newer(g) == Get(g, "updated_at").t = "int" /\ Get(g, "updated_at").i >= where[1]
         IN  SelectSeq(games, Newer)

Min(a, b) == IF a <= b THEN a ELSE b

GamesPage(games, q) ==
    LET m == Matching(games, q.where)
    IN  SubSeq(m, q.offset + 1, Min(q.offset + q.limit, Len(m)))

\* which ids a lookup endpoint holds
Held(mode, id) ==
    CASE mode = "all"  -> TRUE
      [] mode = "even" -> id % 2 = 0
      [] mode = "none" -> FALSE

\* the record a lookup endpoint holds for an id
RemoteRecord(endpoint, id) ==
    CASE endpoint \in {"covers", "screenshots"} ->
            [id |-> JInt(id), url |-> JStr("//img"), width |-> JInt(640), height |-> JInt(480)]
      [] endpoint = "involved_companies" ->
            [id |-> JInt(id), company |-> JDict([id |-> JInt(70), name |-> JStr("Nintendo")])]
      [] OTHER -> [id |-> JInt(id), name |-> JStr("name")]

\* a lookup endpoint: the records held for the ids of the filter, at most limit
LookupPage(mode, q) ==
    LET IsHeld(id) == Held(mode, id)
        found == SelectSeq(q.ids, IsHeld)
        n == Min(Len(found), q.limit)
    IN  [i \in 1..n |-> RemoteRecord(q.endpoint, found[i])]

\* what the server holds for a request
Answer(rem, q) ==
    IF q.endpoint = "games" THEN GamesPage(rem.games, q) ELSE LookupPage(rem.held, q)

\* status codes of a failed request (spec 6: error JSON with status code >= 400)
ErrorStatuses == {401, 429, 500}

ErrorText(st) == "error " \o ToString(st)

\* the responses requests.post may give to a request
Responses(rem, q) ==
    {[status |-> 200, json |-> Answer(rem, q), text |-> "json"]}
    \cup {[status |-> st, json |-> <<>>, text |-> ErrorText(st)] : st \in ErrorStatuses}

\* mutant: the status is not looked at
igdb_post_any_status(r) == [raised |-> FALSE, value |-> r.json, error |-> <<>>]

\* igdb_post(endpoint, query, token): r.json() on status 200, else raise
\* Exception(f"IGDB error {r.status_code}: {r.text}")
igdb_post(r) ==
    IF r.status = 200
    THEN [raised |-> FALSE, value |-> r.json, error |-> <<>>]
    ELSE [raised |-> TRUE, value |-> <<>>,
          error |-> <<"IGDB error", r.status, r.text>>]

Request(endpoint, where, limit, offset, ids) ==
    [e |-> "request", endpoint |-> endpoint, where |-> where, limit |-> limit,
     offset |-> offset, ids |-> ids]

Sleep == [e |-> "sleep", ms |-> RATE_SLEEP_MS]

----------------------------------------------------------------------------
(* fetch_games *)

NoFrame ==
    [fn |-> "none", status |-> "returned", since |-> JNull, offset |-> 0,
     all_games |-> <<>>, endpoint |-> "", ids |-> <<>>, i |-> 0, results |-> <<>>,
     arg |-> <<>>, post |-> <<>>, ret |-> <<>>, exc |-> <<>>]

\* int(x) of an int or of a decimal string; <<>> when int() raises ValueError
ParseRange == 0..200

PyInt(v) ==
    CASE v.t = "int" -> <<v.i>>
      [] v.t = "str" -> IF \E n \in ParseRange : ToString(n) = v.s
                        THEN <<CHOOSE n \in ParseRange : ToString(n) = v.s>>
                        ELSE <<>>
      [] OTHER -> <<>>

\* where_clause: "" unless since_updated_at is truthy
WhereClause(since) == IF Truthy(since) THEN PyInt(since) ELSE <<>>

\* mutant: a page shorter than the page size ends the loop
NoMoreGamesShort(batch) == Len(batch) < FETCH_LIMIT

\* "if not batch: break"
NoMoreGames(batch) == batch = <<>>

\* mutant: the offset counts pages, not records
NextOffsetByOne(offset) == offset + 1

\* offset += FETCH_LIMIT
NextOffset(offset) == offset + FETCH_LIMIT

\* fetch_games(token, since_updated_at): entry, all_games = [], offset = 0
fetch_games_call(since) ==
    frame' = [NoFrame EXCEPT !.fn = "fetch_games", !.status = "running",
                             !.since = since, !.arg = <<since>>]

\* one pass of "while True": the request, then break, or extend and sleep
fetch_games_page ==
    /\ frame.fn = "fetch_games"
    /\ frame.status = "running"
    /\ IF Truthy(frame.since) /\ PyInt(frame.since) = <<>>
       THEN \* int(since_updated_at) raises
            /\ frame' = [frame EXCEPT !.status = "raised", !.exc = <<"ValueError">>]
            /\ UNCHANGED <<resp, log>>
       ELSE LET q == Request("games", WhereClause(frame.since), FETCH_LIMIT,
                             frame.offset, <<>>)
            IN  \E r \in Responses(remote, q) :
                  LET batch == igdb_post(r)
                  IN  /\ resp' = <<r>>
                      /\ IF batch.raised
                         THEN /\ frame' = [frame EXCEPT !.status = "raised",
                                                        !.post = <<batch>>,
                                                        !.exc = batch.error]
                              /\ log' = Append(log, q)
                         ELSE IF NoMoreGames(batch.value)
                         THEN /\ frame' = [frame EXCEPT !.status = "returned",
                                                        !.post = <<batch>>,
                                                        !.ret = <<frame.all_games>>]
                              /\ log' = Append(log, q)
                         ELSE /\ frame' = [frame EXCEPT
                                             !.all_games = @ \o batch.value,
                                             !.post = <<batch>>,
                                             !.offset = NextOffset(@)]
                              /\ log' = log \o <<q, Sleep>>
    /\ UNCHANGED remote

----------------------------------------------------------------------------
(* fetch_lookup *)

\* the orders list(set(ids)) may give
SetOrders == {"ascending", "descending"}

MaxId == (MaxChunks + 1) * CHUNK

Reverse(s) == [i \in 1..Len(s) |-> s[Len(s) + 1 - i]]

\* mutant: the list is used as given, duplicates included
ListAsGiven(ids, order) == ids

\* list(set(ids)): each id once, in an order the set decides
ListOfSet(ids, order) ==
    LET present == {ids[i] : i \in DOMAIN ids}
        In(x) == x \in present
        asc == SelectSeq([i \in 1..MaxId |-> i], In)
    IN  IF order = "ascending" THEN asc ELSE Reverse(asc)

\* ids[i:i+CHUNK]
ChunkAt(ids, i) == SubSeq(ids, i + 1, Min(i + CHUNK, Len(ids)))

\* mutant: "if not ids: return" gives None
EmptyResultNone == JNull

\* "if not ids: return []"
EmptyResult == <<>>

\* fetch_lookup(token, endpoint, ids): "if not ids: return []", else the
\* deduplicated list and results = []; a loop over no chunk returns at once
fetch_lookup_call(endpoint, ids, order) ==
    frame' =
        LET base == [NoFrame EXCEPT !.fn = "fetch_lookup", !.endpoint = endpoint,
                                    !.arg = <<endpoint, ids>>]
        IN  IF ids = <<>>
            THEN [base EXCEPT !.ret = <<EmptyResult>>]
            ELSE LET l == ListOfSet(ids, order)
                 IN  IF Len(l) = 0
                     THEN [base EXCEPT !.ret = << <<>> >>]
                     ELSE [base EXCEPT !.status = "running", !.ids = l]

\* one pass of "for i in range(0, len(ids), CHUNK)"; after the last one, return
fetch_lookup_chunk ==
    /\ frame.fn = "fetch_lookup"
    /\ frame.status = "running"
    /\ frame.i < Len(frame.ids)
    /\ LET chunk == ChunkAt(frame.ids, frame.i)
           q == Request(frame.endpoint, <<>>, Len(chunk), 0, chunk)
       IN  \E r \in Responses(remote, q) :
             LET batch == igdb_post(r)
             IN  /\ resp' = <<r>>
                 /\ IF batch.raised
                    THEN /\ frame' = [frame EXCEPT !.status = "raised",
                                                   !.post = <<batch>>,
                                                   !.exc = batch.error]
                         /\ log' = Append(log, q)
                    ELSE /\ frame' =
                              LET res == frame.results \o batch.value
                                  done == frame.i + CHUNK >= Len(frame.ids)
                              IN  [frame EXCEPT
                                     !.results = res,
                                     !.post = <<batch>>,
                                     !.i = @ + CHUNK,
                                     !.status = IF done THEN "returned" ELSE "running",
                                     !.ret = IF done THEN <<res>> ELSE <<>>]
                         /\ log' = log \o <<q, Sleep>>
    /\ UNCHANGED remote

----------------------------------------------------------------------------
(* Direct calls of the fetchers *)

\* the catalog's games in the calls of fetch_games: 0 to MaxPages full pages,
\* and one game more or less
GameCounts ==
    {n \in {k * FETCH_LIMIT + d : k \in 0..MaxPages, d \in {-1, 0, 1}} : n >= 0}

CatalogOf(n) == [i \in 1..n |-> [id |-> JInt(i), updated_at |-> JInt(1000 + i)]]

SinceValues == {JNull, JInt(0), JInt(100), JStr("0"), JStr("100"), JStr("None")}

\* the id lists fetch_lookup is called with: n distinct ids, each once or twice
LookupCounts ==
    {n \in {k * CHUNK + d : k \in 0..MaxChunks, d \in {-1, 0, 1}} : n >= 0}

IdList(n, twice) ==
    IF twice THEN [i \in 1..(2 * n) |-> ((i - 1) % n) + 1] ELSE [i \in 1..n |-> i]

Endpoints == {"genres", "platforms", "involved_companies", "covers", "screenshots"}

HeldModes == {"all", "even", "none"}

NoRemote == [games |-> <<>>, held |-> "all"]

InitFetch ==
    /\ remote = NoRemote
    /\ frame = NoFrame
    /\ resp = <<>>
    /\ log = <<>>

NoRun ==
    [pc |-> "idle", n |-> 0, since |-> JNull, before |-> {}, games |-> <<>>,
     lookups |-> <<>>, outcome |-> "none", prev |-> <<>>, complete |-> TRUE]

InitRun == run = NoRun

\* a call starts when no call is running; the fetchers keep nothing between
\* calls, so a behaviour of direct calls is one call from the initial state
Idle == frame = NoFrame

CallFetchGames ==
    \E n \in GameCounts, since \in SinceValues :
        /\ Idle
        /\ fetch_games_call(since)
        /\ remote' = [games |-> CatalogOf(n), held |-> "all"]
        /\ resp' = <<>>
        /\ log' = <<>>
        /\ UNCHANGED <<storeVars, run>>

CallFetchLookup ==
    \E e \in Endpoints, n \in LookupCounts, twice \in BOOLEAN,
       order \in SetOrders, mode \in HeldModes :
        /\ Idle
        /\ fetch_lookup_call(e, IdList(n, twice), order)
        /\ remote' = [games |-> <<>>, held |-> mode]
        /\ resp' = <<>>
        /\ log' = <<>>
        /\ UNCHANGED <<storeVars, run>>

NextFetch ==
    \/ CallFetchGames
    \/ CallFetchLookup
    \/ fetch_games_page /\ UNCHANGED <<storeVars, run>>
    \/ fetch_lookup_chunk /\ UNCHANGED <<storeVars, run>>


----------------------------------------------------------------------------
(* The store operations *)

NoOp == [op |-> "none", arg |-> <<>>, ok |-> TRUE, ret |-> JNull]

InitStore ==
    /\ db = CreateTables(NoTables)
    /\ committed = CreateTables(NoTables)
    /\ pre = CreateTables(NoTables)
    /\ last = NoOp
    /\ written = [k \in StateKeys |-> <<>>]
    /\ failedBase = <<>>
    /\ nOps = 0

\* init_sqlite(conn): create the missing tables, commit
init_sqlite ==
    /\ db' = CreateTables(db)
    /\ committed' = db'
    /\ pre' = db
    /\ last' = [op |-> "init_sqlite", arg |-> <<>>, ok |-> TRUE, ret |-> JNull]
    /\ nOps' = nOps + 1
    /\ UNCHANGED <<written, failedBase>>

\* get_state(conn, key, default)
get_state(key, default) ==
    /\ pre' = db
    /\ last' = [op |-> "get_state", arg |-> <<key, default>>, ok |-> TRUE,
                ret |-> GetStateValue(db, key, default)]
    /\ nOps' = nOps + 1
    /\ UNCHANGED <<db, committed, written, failedBase>>

\* set_state(conn, key, value): upsert the row, commit
set_state(key, value) ==
    /\ db' = Execute(db, SetStateStmt(key, value))
    /\ committed' = db'
    /\ pre' = db
    /\ last' = [op |-> "set_state", arg |-> <<key, value>>, ok |-> TRUE, ret |-> JNull]
    /\ written' = [written EXCEPT ![key] = <<value>>]
    /\ nOps' = nOps + 1
    /\ UNCHANGED failedBase

\* save_to_sqlite(conn, games, genres, platforms, companies, covers, screenshots):
\* the statements, then conn.commit(); a statement that raises ends the call
\* with the earlier statements pending on the connection
save_to_sqlite(b) ==
    /\ LET r == SaveResult(db, b)
       IN  /\ db' = r.db
           /\ committed' = IF r.ok THEN r.db ELSE committed
           /\ last' = [op |-> "save_to_sqlite", arg |-> b, ok |-> r.ok, ret |-> JNull]
           /\ failedBase' = IF r.ok THEN <<>>
                            ELSE IF failedBase = <<>> THEN <<committed>> ELSE failedBase
    /\ pre' = db
    /\ nOps' = nOps + 1
    /\ UNCHANGED written

\* the process ends, or the connection is closed, without a commit: the pending
\* writes are rolled back; the next operation runs on a new connection
close_connection ==
    /\ db' = committed
    /\ pre' = db
    /\ last' = [op |-> "close", arg |-> <<>>, ok |-> TRUE, ret |-> JNull]
    /\ failedBase' = <<>>
    /\ nOps' = nOps + 1
    /\ UNCHANGED <<committed, written>>

NextStore ==
    \/ nOps < MaxOps /\ init_sqlite /\ UNCHANGED <<fetchVars, run>>
    \/ \E k \in StateKeys, d \in StateDefaults :
           nOps < MaxOps /\ get_state(k, d) /\ UNCHANGED <<fetchVars, run>>
    \/ \E k \in StateKeys, v \in StateValues :
           nOps < MaxOps /\ set_state(k, v) /\ UNCHANGED <<fetchVars, run>>
    \/ \E b \in Batches :
           nOps < MaxOps /\ save_to_sqlite(b) /\ UNCHANGED <<fetchVars, run>>
    \/ nOps < MaxOps /\ close_connection /\ UNCHANGED <<fetchVars, run>>

Init == InitStore /\ InitFetch /\ InitRun

Spec == Init /\ [][NextStore]_vars

SpecFetch == Init /\ [][NextFetch]_vars


----------------------------------------------------------------------------
(* get_access_token *)

TokenResponses ==
    {[status |-> 200, json |-> [access_token |-> "token"], text |-> "json"],
     [status |-> 401, json |-> <<>>, text |-> "invalid client"]}

\* r.raise_for_status(); return r.json()["access_token"]
get_access_token(r) ==
    IF r.status >= 400
    THEN [raised |-> TRUE, value |-> ""]
    ELSE [raised |-> FALSE, value |-> r.json.access_token]

----------------------------------------------------------------------------
(* The sync run (spec 4.5): read the checkpoint, obtain a token, fetch the    *)
(* games, fetch each collection of referenced records, upsert, advance the   *)
(* checkpoint.  A failure at any stage ends the run.                         *)

CheckpointKey == "last_sync_timestamp"

\* the lookup endpoints in the order the run fetches them, and the field of a
\* game that references each
EndpointOrder == <<"genres", "platforms", "involved_companies", "covers", "screenshots">>

ReferenceField(endpoint) ==
    CASE endpoint = "genres"             -> "genres"
      [] endpoint = "platforms"          -> "platforms"
      [] endpoint = "involved_companies" -> "involved_companies"
      [] endpoint = "covers"             -> "cover"
      [] endpoint = "screenshots"        -> "screenshots"

\* the ids one game references for an endpoint: a list field, or the cover id
ReferencedBy(g, endpoint) ==
    LET v == Get(g, ReferenceField(endpoint))
    IN  CASE v.t = "list" -> [i \in 1..Len(v.l) |-> v.l[i].i]
          [] v.t = "int"  -> <<v.i>>
          [] OTHER        -> <<>>

\* the ids the fetched games reference for an endpoint, as collected
Referenced(games, endpoint) ==
    Concat([i \in 1..Len(games) |-> ReferencedBy(games[i], endpoint)])

\* a game the catalog changed lately, whose summary cannot be bound
UnbindableGame ==
    [id |-> JInt(2), name |-> JStr("Tetris"), summary |-> JList(<<>>),
     updated_at |-> JInt(200), genres |-> Refs(<<2>>)]

\* the catalogs of the runs
RunCatalogs ==
    {<<>>,
     <<GameSamples.a, GameSamples.c>>,
     <<GameSamples.b, UnbindableGame>>}

RunHeldModes == {"all", "even"}

\* the timestamps a run may advance the checkpoint to
Timestamps == {JInt(100), JInt(150)}

RunBatch ==
    Batch(run.games, run.lookups[1], run.lookups[2], run.lookups[3],
          run.lookups[4], run.lookups[5])

Ended(outcome) ==
    [run EXCEPT !.pc = "idle", !.outcome = outcome,
                !.prev = <<[outcome |-> outcome, since |-> run.since,
                            before |-> run.before]>>]

\* a run starts: the connection is opened on the store as committed, the tables
\* are created if missing; complete says that in this run and the ones before
\* every id the games reference exists remotely
RunOpen ==
    /\ run.pc = "idle"
    /\ run.n < MaxRuns
    /\ init_sqlite
    /\ \E cat \in RunCatalogs, mode \in RunHeldModes :
           remote' = [games |-> cat, held |-> mode]
    /\ frame' = NoFrame
    /\ resp' = <<>>
    /\ log' = <<>>
    /\ run' = [NoRun EXCEPT !.pc = "read", !.n = run.n + 1, !.prev = run.prev,
                            !.complete = run.complete /\ remote'.held = "all"]

\* the checkpoint is read, None when there was no sync before
RunRead ==
    /\ run.pc = "read"
    /\ get_state(CheckpointKey, JNull)
    /\ run' = [run EXCEPT !.pc = "token",
                          !.since = GetStateValue(db, CheckpointKey, JNull),
                          !.before = committed["sync_state"]]
    /\ UNCHANGED fetchVars

RunToken ==
    /\ run.pc = "token"
    /\ \E r \in TokenResponses :
           run' = IF get_access_token(r).raised
                  THEN [run EXCEPT !.pc = "failed"]
                  ELSE [run EXCEPT !.pc = "fetch_games"]
    /\ UNCHANGED <<storeVars, fetchVars>>

RunFetchGames ==
    /\ run.pc = "fetch_games"
    /\ fetch_games_call(run.since)
    /\ run' = [run EXCEPT !.pc = "games"]
    /\ UNCHANGED <<storeVars, remote, resp, log>>

RunGamesPage ==
    /\ run.pc = "games"
    /\ fetch_games_page
    /\ run' = CASE frame'.status = "returned" ->
                      [run EXCEPT !.pc = "lookup", !.games = frame'.ret[1]]
                [] frame'.status = "raised" -> [run EXCEPT !.pc = "failed"]
                [] OTHER -> run
    /\ UNCHANGED storeVars

\* the next collection of referenced records is fetched; after the last, upsert
RunLookup ==
    /\ run.pc = "lookup"
    /\ IF Len(run.lookups) = Len(EndpointOrder)
       THEN /\ run' = [run EXCEPT !.pc = "save"]
            /\ UNCHANGED frame
       ELSE LET e == EndpointOrder[Len(run.lookups) + 1]
            IN  /\ \E order \in SetOrders :
                       fetch_lookup_call(e, Referenced(run.games, e), order)
                /\ run' = IF frame'.status = "returned"
                          THEN [run EXCEPT !.lookups = Append(@, frame'.ret[1])]
                          ELSE [run EXCEPT !.pc = "chunks"]
    /\ UNCHANGED <<storeVars, remote, resp, log>>

RunLookupChunk ==
    /\ run.pc = "chunks"
    /\ fetch_lookup_chunk
    /\ run' = CASE frame'.status = "returned" ->
                      [run EXCEPT !.pc = "lookup", !.lookups = Append(@, frame'.ret[1])]
                [] frame'.status = "raised" -> [run EXCEPT !.pc = "failed"]
                [] OTHER -> run
    /\ UNCHANGED storeVars

RunSave ==
    /\ run.pc = "save"
    /\ save_to_sqlite(RunBatch)
    /\ run' = IF last'.ok THEN [run EXCEPT !.pc = "advance"]
                          ELSE [run EXCEPT !.pc = "failed"]
    /\ UNCHANGED fetchVars

\* the checkpoint is advanced; the run is over
RunAdvance ==
    /\ run.pc = "advance"
    /\ \E now \in Timestamps : set_state(CheckpointKey, now)
    /\ run' = Ended("done")
    /\ UNCHANGED fetchVars

\* a failed run ends the process: what was pending is rolled back
RunAbort ==
    /\ run.pc = "failed"
    /\ close_connection
    /\ run' = Ended("failed")
    /\ UNCHANGED fetchVars

NextRun ==
    \/ RunOpen
    \/ RunRead
    \/ RunToken
    \/ RunFetchGames
    \/ RunGamesPage
    \/ RunLookup
    \/ RunLookupChunk
    \/ RunSave
    \/ RunAdvance
    \/ RunAbort

SpecRun == Init /\ [][NextRun]_vars


----------------------------------------------------------------------------
(* Properties of the store *)

DataTables == EntityTables \cup AssocTables

SavedOk == last.op = "save_to_sqlite" /\ last.ok

\* C1: idempotent upsert.  In every state reached by a save_to_sqlite call that
\* returned, calling save_to_sqlite again with the same batch returns too and
\* leaves every entity table and every association table as the first call left it.
C1_IdempotentUpsert ==
    SavedOk =>
        LET again == SaveResult(db, last.arg)
        IN  /\ again.ok
            /\ \A t \in DataTables : again.db[t] = db[t]

\* a second call with a batch of games, lookups and references, on a store that
\* already held rows, has left the store as it found it
C1_Witness ==
    /\ SavedOk
    /\ Len(last.arg.games) = 2
    /\ Len(last.arg.genres) = 2
    /\ db["game_genres"] # {}
    /\ db["igdb_covers"] # {}
    /\ pre = db
    /\ committed = db

\* what str() must give for the values set_state is called with
ExpectedText(v) ==
    CASE v = JInt(100)   -> "100"
      [] v = JStr("200") -> "200"
      [] v = JNull       -> "None"

ExpectedState(k, d) ==
    IF written[k] = <<>> THEN d ELSE JStr(ExpectedText(written[k][1]))

\* C6: checkpoint read/write.  sync_state holds at most one row per key;
\* get_state returns the string form of the value most recently passed to
\* set_state for the key, and the default when the key was never set; the row
\* set_state wrote is committed when it returns, and the rows of the other keys
\* are as they were.
C6_CheckpointReadWrite ==
    /\ \A r, q \in db["sync_state"] : r.key = q.key => r = q
    /\ \A k \in StateKeys, d \in StateDefaults :
           GetStateValue(db, k, d) = ExpectedState(k, d)
    /\ last.op = "get_state" => last.ret = ExpectedState(last.arg[1], last.arg[2])
    /\ last.op = "set_state" =>
           /\ [key |-> JStr(last.arg[1]), value |-> JStr(ExpectedText(last.arg[2]))]
                  \in committed["sync_state"]
           /\ \A k \in StateKeys \ {last.arg[1]} :
                  {r \in db["sync_state"] : r.key = JStr(k)}
                      = {r \in pre["sync_state"] : r.key = JStr(k)}

\* a set_state has replaced an earlier value of its key while another key was set
C6_Witness ==
    /\ last.op = "set_state"
    /\ last.arg = <<"last_sync_timestamp", JInt(100)>>
    /\ [key |-> JStr("last_sync_timestamp"), value |-> JStr("200")] \in pre["sync_state"]
    /\ [key |-> JStr("cursor"), value |-> JStr("None")] \in db["sync_state"]
    /\ Cardinality(db["sync_state"]) = 2

\* C7: all-or-nothing pass.  Once a save_to_sqlite call has raised, the committed
\* entity and association tables are those committed before that call, whatever
\* is called next on the connection.
C7_AllOrNothing ==
    failedBase # <<>> => \A t \in DataTables : committed[t] = failedBase[1][t]

\* the tables in the order save_to_sqlite writes them
EntityOrder ==
    <<"igdb_genres", "igdb_platforms", "igdb_companies", "igdb_covers",
      "igdb_screenshots", "igdb_games">>

ListOf(b, t) ==
    CASE t = "igdb_genres"      -> b.genres
      [] t = "igdb_platforms"   -> b.platforms
      [] t = "igdb_companies"   -> b.companies
      [] t = "igdb_covers"      -> b.covers
      [] t = "igdb_screenshots" -> b.screenshots
      [] t = "igdb_games"       -> b.games

ScalarColumns(t) ==
    CASE t \in {"igdb_genres", "igdb_platforms", "igdb_companies"} -> {"name"}
      [] t \in {"igdb_covers", "igdb_screenshots"} -> {"url", "width", "height"}
      [] t = "igdb_games" ->
            {"name", "summary", "first_release_date", "rating",
             "total_rating_count", "updated_at"}

\* the value a record gives for a column: its field, null when it lacks the
\* field; a company's name is that of its nested company object when it has one
FieldOf(t, rec, c) ==
    IF t = "igdb_companies" /\ "company" \in DOMAIN rec /\ rec["company"].t = "dict"
    THEN (IF "name" \in DOMAIN rec["company"].d THEN rec["company"].d["name"] ELSE JNull)
    ELSE (IF c \in DOMAIN rec THEN rec[c] ELSE JNull)

RowOf(t, rec) ==
    [c \in {"id"} \cup ScalarColumns(t) |-> IF c = "id" THEN rec["id"] ELSE FieldOf(t, rec, c)]

\* the entity records of a batch, in the order they are written
EntityRecords(b) ==
    Concat([i \in 1..Len(EntityOrder) |->
              [j \in 1..Len(ListOf(b, EntityOrder[i])) |->
                  [t |-> EntityOrder[i], rec |-> ListOf(b, EntityOrder[i])[j]]]])

Unbindable(e) == \E c \in ScalarColumns(e.t) : ~Bindable(FieldOf(e.t, e.rec, c))

\* the records a call wrote: all of them, or those before the one that raised
WrittenRecords(b) ==
    LET all == EntityRecords(b)
        bad == {i \in 1..Len(all) : Unbindable(all[i])}
    IN  IF bad = {} THEN all
        ELSE SubSeq(all, 1, (CHOOSE i \in bad : \A j \in bad : i <= j) - 1)

\* C10: entity upsert keyed by remote id.  Every entity table holds at most one
\* row per id; after a save_to_sqlite call the row of an id the call wrote holds
\* the columns of the last record written with that id, a missing field as null,
\* and the rows of the other ids are as they were.
C10_EntityUpsert ==
    /\ \A t \in EntityTables : \A r, q \in db[t] : r.id = q.id => r = q
    /\ last.op = "save_to_sqlite" =>
           LET w == WrittenRecords(last.arg)
           IN  \A t \in EntityTables :
                   LET of == [i \in {i \in 1..Len(w) : w[i].t = t} |-> w[i].rec]
                       ids == {of[i]["id"] : i \in DOMAIN of}
                       lastOf(x) == of[CHOOSE i \in DOMAIN of :
                                          /\ of[i]["id"] = x
                                          /\ \A j \in DOMAIN of : of[j]["id"] = x => j <= i]
                   IN  /\ \A x \in ids : RowOf(t, lastOf(x)) \in db[t]
                       /\ {r \in db[t] : r.id \notin ids} = {r \in pre[t] : r.id \notin ids}

\* a later call has overwritten stored values with null, and with the later of
\* two records of one id
C10_Witness ==
    /\ SavedOk
    /\ \E r \in pre["igdb_games"] : r.id = JInt(1) /\ r.summary = JStr("An adventure")
    /\ \E r \in db["igdb_games"] :
           r.id = JInt(1) /\ r.summary = JNull /\ r.name = JStr("Zelda DX")
    /\ \E r \in pre["igdb_genres"] : r.id = JInt(1) /\ r.name = JStr("Action")
    /\ \E r \in db["igdb_genres"] : r.id = JInt(1) /\ r.name = JNull
    /\ \E r \in db["igdb_genres"] : r.id = JInt(2)


----------------------------------------------------------------------------
(* Properties of the fetchers *)

IsRequest(e) == e.e = "request"

Requests == SelectSeq(log, IsRequest)

\* the games the source holds for the filter the call sends
Source == Matching(remote.games, WhereClause(frame.since))

\* C3: pagination termination.  Every request of fetch_games asks for FETCH_LIMIT
\* games at the offset FETCH_LIMIT times the number of requests before it; when
\* the source gives k full pages and then an empty one, fetch_games returns after
\* exactly k + 1 requests, with the k * FETCH_LIMIT games in the order received.
C3_PaginationTermination ==
    frame.fn = "fetch_games" =>
        /\ \A i \in 1..Len(Requests) :
               /\ Requests[i].endpoint = "games"
               /\ Requests[i].limit = FETCH_LIMIT
               /\ Requests[i].offset = (i - 1) * FETCH_LIMIT
        /\ (frame.status = "returned" /\ Len(Source) % FETCH_LIMIT = 0) =>
               LET k == Len(Source) \div FETCH_LIMIT
               IN  /\ Len(Requests) = k + 1
                   /\ Requests[k + 1].offset = k * FETCH_LIMIT
                   /\ frame.ret = <<Source>>
                   /\ Len(frame.ret[1]) = k * FETCH_LIMIT

\* two full pages and an empty one: three requests, 1000 games returned
C3_Witness ==
    /\ frame.fn = "fetch_games"
    /\ frame.status = "returned"
    /\ Len(remote.games) = 2 * FETCH_LIMIT
    /\ Len(Requests) = 3
    /\ Len(frame.ret[1]) = 2 * FETCH_LIMIT
    /\ frame.ret[1][FETCH_LIMIT + 1] = remote.games[FETCH_LIMIT + 1]

Ceil(n, c) == (n + c - 1) \div c

SetOf(seq) == {seq[i] : i \in DOMAIN seq}

\* C4: chunked lookup completeness.  No request of fetch_lookup names more than
\* CHUNK ids and no id is named by two requests; when fetch_lookup returns for
\* a list of n distinct ids it has sent ceil(n / CHUNK) requests, each distinct id
\* is in the filter of exactly one, and the list returned holds exactly the
\* records the source holds for those ids, each once.
C4_ChunkedLookup ==
    frame.fn = "fetch_lookup" =>
        LET distinct == SetOf(frame.arg[2])
            named == [j \in 1..Len(Requests) |-> SetOf(Requests[j].ids)]
        IN  /\ \A j \in 1..Len(Requests) :
                   /\ Requests[j].endpoint = frame.endpoint
                   /\ Len(Requests[j].ids) <= CHUNK
                   /\ Cardinality(named[j]) = Len(Requests[j].ids)
                   /\ named[j] \subseteq distinct
                   /\ \A h \in 1..(j - 1) : named[h] \cap named[j] = {}
            /\ frame.status = "returned" =>
                   /\ Len(Requests) = Ceil(Cardinality(distinct), CHUNK)
                   /\ UNION {named[j] : j \in 1..Len(Requests)} = distinct
                   /\ SetOf(frame.ret[1])
                          = {RemoteRecord(frame.endpoint, id) :
                                 id \in {x \in distinct : Held(remote.held, x)}}
                   /\ Len(frame.ret[1]) = Cardinality(SetOf(frame.ret[1]))

\* 1001 distinct ids given twice each, half of them held remotely: three
\* requests, 500 records
C4_Witness ==
    /\ frame.fn = "fetch_lookup"
    /\ frame.status = "returned"
    /\ Len(frame.arg[2]) = 2 * (2 * CHUNK + 1)
    /\ Len(Requests) = 3
    /\ remote.held = "even"
    /\ Len(frame.ret[1]) = CHUNK

\* C5: empty-input short-circuit.  fetch_lookup called with no id has returned an
\* empty list without a request and without a sleep.
C5_EmptyInput ==
    (frame.fn = "fetch_lookup" /\ frame.arg[2] = <<>>) =>
        /\ frame.status = "returned"
        /\ frame.ret = << <<>> >>
        /\ log = <<>>
        /\ resp = <<>>

C5_Witness ==
    /\ frame.fn = "fetch_lookup"
    /\ frame.arg = <<"covers", <<>> >>
    /\ frame.status = "returned"
    /\ frame.ret = << <<>> >>

----------------------------------------------------------------------------
(* Properties of the sync run *)

InRun == run.pc \notin {"idle", "read"}

GameRequests ==
    LET IsGames(e) == IsRequest(e) /\ e.endpoint = "games"
    IN  SelectSeq(log, IsGames)

\* C2: the checkpoint is not advanced by a failed run.  From the read of the
\* checkpoint until set_state, no step of a run (token, fetch_games,
\* fetch_lookup, save_to_sqlite, the abort) changes sync_state, on the
\* connection or in the file; after a failed run the checkpoint stored is the
\* one the run read; and the run after a failed run reads the same checkpoint
\* and sends the same filter in every games request.
C2_CheckpointNotAdvanced ==
    /\ InRun =>
           /\ db["sync_state"] = run.before
           /\ committed["sync_state"] = run.before
    /\ (run.pc = "idle" /\ run.outcome = "failed") =>
           /\ committed["sync_state"] = run.before
           /\ db["sync_state"] = run.before
           /\ GetStateValue(committed, CheckpointKey, JNull) = run.since
    /\ (InRun /\ run.prev # <<>> /\ run.prev[1].outcome = "failed") =>
           /\ run.since = run.prev[1].since
           /\ \A i \in 1..Len(GameRequests) :
                  GameRequests[i].where = WhereClause(run.prev[1].since)

\* the second run fails in save_to_sqlite after the first advanced the checkpoint:
\* the games written before the failing statement are rolled back, the
\* checkpoint is the one the first run stored
C2_Witness ==
    /\ run.n = 2
    /\ run.pc = "idle"
    /\ run.outcome = "failed"
    /\ run.prev[1].before # {}
    /\ Len(run.lookups) = Len(EndpointOrder)
    /\ pre # committed
    /\ GetStateValue(committed, CheckpointKey, JNull) = JStr("100")

\* C9: in a sync run a pause of RATE_SLEEP lies between every two consecutive
\* catalog data requests, those of different calls included.
C9_InterRequestDelay ==
    \A i \in 1..(Len(log) - 1) :
        IsRequest(log[i]) => log[i + 1] = Sleep
----------------------------------------------------------------------------
(* Properties of one pass from fetch to store *)

\* the field of a game an association table is filled from, and its column
AssocField(t) ==
    CASE t = "game_genres"      -> "genres"
      [] t = "game_platforms"   -> "platforms"
      [] t = "game_companies"   -> "involved_companies"
      [] t = "game_screenshots" -> "screenshots"

AssocColumn(t) ==
    CASE t = "game_genres"      -> "genre_id"
      [] t = "game_platforms"   -> "platform_id"
      [] t = "game_companies"   -> "company_id"
      [] t = "game_screenshots" -> "screenshot_id"

PairRow(t, gid, x) ==
    [c \in {"game_id", AssocColumn(t)} |-> IF c = "game_id" THEN gid ELSE x]

\* the entries of a game's reference list; none when it is missing, null or empty
Entries(g, f) ==
    IF f \in DOMAIN g /\ g[f].t = "list" THEN SetOf(g[f].l) ELSE {}

\* the pairs (game id, entry) of a list of games for an association table
PairsOf(t, games) ==
    UNION {{PairRow(t, games[i]["id"], x) : x \in Entries(games[i], AssocField(t))} :
             i \in 1..Len(games)}

IdsOf(rows) == {r.id : r \in rows}

\* the ids the games reference in a field that the endpoint holds
HeldRefs(games, f, mode) ==
    {x \in UNION {Entries(games[i], f) : i \in 1..Len(games)} : Held(mode, x.i)}

\* the first pass, on the empty store, has upserted
FirstPassSaved == run.n = 1 /\ run.pc = "advance" /\ SavedOk

\* C11: end-to-end row counts.  When the first pass, on an empty store, has
\* fetched the catalog and saved, the store holds one game row per distinct
\* id of a catalog game, one genre row and one platform row per distinct
\* referenced id the endpoint holds, and in each association table exactly one
\* row per distinct pair of a game id and an id the game references.
C11_EndToEndCounts ==
    FirstPassSaved =>
        LET games == remote.games
        IN  /\ committed = db
            /\ run.games = games
            /\ IdsOf(db["igdb_games"]) = {games[i]["id"] : i \in 1..Len(games)}
            /\ IdsOf(db["igdb_genres"]) = HeldRefs(games, "genres", remote.held)
            /\ IdsOf(db["igdb_platforms"]) = HeldRefs(games, "platforms", remote.held)
            /\ \A t \in {"igdb_games", "igdb_genres", "igdb_platforms"} :
                   Cardinality(db[t]) = Cardinality(IdsOf(db[t]))
            /\ \A t \in AssocTables : db[t] = PairsOf(t, games)

\* two games share genre 1: one genre row for it, two game_genres rows
C11_Witness ==
    /\ FirstPassSaved
    /\ Cardinality(db["igdb_games"]) = 2
    /\ Cardinality({r \in db["igdb_genres"] : r.id = JInt(1)}) = 1
    /\ Cardinality({r \in db["game_genres"] : r.genre_id = JInt(1)}) = 2
    /\ Cardinality(db["igdb_platforms"]) = 2
    /\ Cardinality(db["game_platforms"]) = 3
----------------------------------------------------------------------------
(* Properties of the store over sequences of operations *)

\* what identifies a row: the id in an entity table, the pair in an association table
RowKeys(t, rows) == IF t \in EntityTables THEN IdsOf(rows) ELSE rows

\* C12: no deletion.  A step of init_sqlite, set_state or save_to_sqlite, whether
\* it returns or raises, removes no id from an entity table and no pair from
\* an association table, on the connection and in the file.
C12_NoDeletion ==
    [][last'.op \in {"init_sqlite", "set_state", "save_to_sqlite"} =>
           \A t \in DataTables :
               /\ RowKeys(t, db[t]) \subseteq RowKeys(t, db'[t])
               /\ RowKeys(t, committed[t]) \subseteq RowKeys(t, committed'[t])]_vars

\* game 1 was saved with genres 1 and 2 and platform 1; saved again it references
\* genre 2 only, and the pairs with genre 1 and platform 1 are still there
C12_Witness ==
    /\ SavedOk
    /\ last.arg.games = <<GameSamples.b>>
    /\ PairRow("game_genres", JInt(1), JInt(1)) \in pre["game_genres"]
    /\ PairRow("game_genres", JInt(1), JInt(1)) \in committed["game_genres"]
    /\ PairRow("game_platforms", JInt(1), JInt(1)) \in committed["game_platforms"]
----------------------------------------------------------------------------
(* Properties of fetch_games over the checkpoint and the page sizes *)

\* C13: incremental filter.  Every page request of a fetch_games call carries
\* the filter updated_at >= checkpoint when a checkpoint was supplied, whatever
\* its value, and no filter when none was supplied.
C13_IncrementalFilter ==
    frame.fn = "fetch_games" =>
        \A i \in 1..Len(Requests) :
            Requests[i].where =
                (IF frame.since = JNull THEN <<>> ELSE PyInt(frame.since))
IsSleep(e) == e.e = "sleep"

\* the pages fetch_games has taken in: each was followed by a sleep
PagesTaken == Len(SelectSeq(log, IsSleep))

\* C14: pagination stops only on an empty page.  After every non-empty page,
\* short or full, the offset is FETCH_LIMIT times the number of pages taken and
\* the games gathered are the source's first ones in source order; the call
\* returns only on an empty page, after ceil(N / FETCH_LIMIT) + 1 requests for a
\* source of N matching games, with all N games in source order.
C14_StopsOnEmptyPage ==
    (frame.fn = "fetch_games" /\ frame.exc # <<"ValueError">>) =>
        LET N == Len(Source)
        IN  /\ frame.offset = PagesTaken * FETCH_LIMIT
            /\ frame.all_games = SubSeq(Source, 1, Min(frame.offset, N))
            /\ frame.status = "running" => PagesTaken <= Ceil(N, FETCH_LIMIT)
            /\ frame.status = "returned" =>
                   /\ resp[1].json = <<>>
                   /\ Len(Requests) = Ceil(N, FETCH_LIMIT) + 1
                   /\ frame.ret = <<Source>>
                   /\ Len(frame.ret[1]) = N

\* 501 games: a full page, a page of one game, an empty page
C14_Witness ==
    /\ frame.fn = "fetch_games"
    /\ frame.status = "returned"
    /\ Len(Source) = FETCH_LIMIT + 1
    /\ Len(Requests) = 3
    /\ Requests[3].offset = 2 * FETCH_LIMIT
    /\ Len(frame.ret[1]) = FETCH_LIMIT + 1
    /\ frame.ret[1][FETCH_LIMIT + 1] = remote.games[FETCH_LIMIT + 1]
----------------------------------------------------------------------------
(* Properties of the association tables *)

\* C15: association denormalization is exact.  When save_to_sqlite has returned,
\* each association table holds what it held before the call and the pairs of
\* a game id of the batch with an entry of that game's genres, platforms,
\* involved_companies or screenshots list, and nothing else; the entry of
\* involved_companies is stored as it is in company_id.
C15_AssociationExact ==
    SavedOk =>
        \A t \in AssocTables :
            /\ db[t] = pre[t] \cup PairsOf(t, last.arg.games)
            /\ committed[t] = db[t]

\* game 1 had the pair with genre 2; the batch adds its pair with genre 1 and
\* game 2's with genre 1, and the pair of game 1 with the involved_companies
\* entry 1; game 2 has no involved_companies and no screenshots
C15_Witness ==
    /\ SavedOk
    /\ last.arg.games = <<GameSamples.a, GameSamples.c>>
    /\ pre["game_genres"] = {PairRow("game_genres", JInt(1), JInt(2))}
    /\ Cardinality(db["game_genres"]) = 3
    /\ db["game_companies"] = {PairRow("game_companies", JInt(1), JInt(1))}
    /\ Cardinality(db["game_screenshots"]) = 2
----------------------------------------------------------------------------
(* Properties of the store between passes *)

\* the association tables whose referenced ids are the ids of a lookup table
BackfilledTables == {"game_genres", "game_platforms", "game_screenshots"}

LookupOf(t) ==
    CASE t = "game_genres"      -> "igdb_genres"
      [] t = "game_platforms"   -> "igdb_platforms"
      [] t = "game_screenshots" -> "igdb_screenshots"

\* every genre, platform and screenshot id of an association row has its lookup row
NoDangling(d) ==
    \A t \in BackfilledTables :
        \A r \in d[t] : r[AssocColumn(t)] \in IdsOf(d[LookupOf(t)])

PassCompleted == run.pc = "idle" /\ run.outcome = "done"

\* C16: backfill of referenced entities.  As long as every pass looked up the
\* ids its fetched games reference and the catalog held them all, every
\* genre_id, platform_id and screenshot_id of an association row of the
\* committed store has a row in its lookup table, at every moment; when a pass
\* has completed the same holds of what the connection sees.
C16_Backfill ==
    run.complete =>
        /\ NoDangling(committed)
        /\ PassCompleted => NoDangling(db)

\* two passes completed, the second filtered by the checkpoint of the first
C16_Witness ==
    /\ run.complete
    /\ PassCompleted
    /\ run.n = 2
    /\ run.since # JNull
    /\ Cardinality(committed["game_genres"]) = 3
    /\ Cardinality(committed["game_screenshots"]) = 2
    /\ Cardinality(committed["igdb_screenshots"]) = 2

====
